---- MODULE Spec2Model ----
(***************************************************************************)
(* A model of dab-mechanic: link discovery (get_article_links), preview    *)
(* rendering (get_dab_html), annotation (Article.process_links) and the    *)
(* save path (save, apply_edits), and the OAuth session (start_oauth,      *)
(* oauth_callback, oauth_disconnect, get_username).                        *)
(*                                                                         *)
(* Python strings are sequences of one-character strings, so that          *)
(* endswith, len, join, re.sub and str(int) are computed, not assumed.     *)
(***************************************************************************)
EXTENDS Integers, Sequences, FiniteSets, TLC

VARIABLES
    \* ---- get_article_links (dab_mechanic/wikipedia.py) ----
    lpc,            \* "call": at the loop head; "done": returned; "error": raised
    gplcontinue,    \* params["gplcontinue"], NoToken while the key is not set
    links,          \* the local set links
    redirects,      \* the local defaultdict(set) redirects: to -> set of from
    result,         \* the returned list (as a set), present only after return
    diag,           \* TRUE once pprint(data) has printed a diagnostic
    calls,          \* number of mediawiki_api.call requests issued
    sent,           \* the gplcontinue parameter carried by the latest request
    lastResp,       \* the latest response of the gateway (summary of its shape)
    servedPages,    \* page record served so far -> the batch that first held it
    servedRedirects,\* redirect entry served so far -> the batch that first held it
    \* ---- get_dab_html (dab_mechanic/wikipedia.py) ----
    html,           \* the parsed page handed to get_dab_html: its elements in document order
    first,          \* the preview rendered from html with one sequence number
    second,         \* the preview rendered from the same html with a later number
    \* ---- Article (dab_mechanic/wikipedia.py and web_view.py) ----
    apc,            \* "loaded": after load(); then which process_links ran, or "error"
    root,           \* self.root: the a[@href] elements of the article, in document order
    self_links,     \* self.links, the titles get_article_links returned
    dab_list,       \* self.dab_list
    dab_order,      \* self.dab_order
    dab_lookup,     \* self.dab_lookup
    dab_html,       \* self.dab_html: title -> fetched page (wikipedia.py only)
    fetched,        \* the titles get_article_html was called with, in order
    \* ---- save and apply_edits (web_view.py) ----
    epc,            \* "request": before the call; "applied", "saved", "error" after it
    content,        \* get_content(enwiki): the article's wikitext
    edits,          \* the submitted edits, each <<link_from, link_to>>
    article_text,   \* the text apply_edits returned
    edit_summary,   \* the edit summary save built
    \* ---- the OAuth session (web_view.py, dab_mechanic/wikidata_oauth.py) ----
    opc,            \* the latest request: "none", or its route and whether it raised
    session,        \* flask.session: the keys it holds and their values
    g_user,         \* flask.g.user, set before every request
    issued          \* number of request tokens the wiki has issued

linkVars == <<lpc, gplcontinue, links, redirects, result, diag, calls, sent,
              lastResp, servedPages, servedRedirects>>

dabVars == <<html, first, second>>

artVars == <<apc, root, self_links, dab_list, dab_order, dab_lookup, dab_html,
             fetched>>

editVars == <<epc, content, edits, article_text, edit_summary>>

oauthVars == <<opc, session, g_user, issued>>

vars == <<linkVars, dabVars, artVars, editVars, oauthVars>>

----------------------------------------------------------------------------
(* Strings *)

\* str.endswith
EndsWith(s, suffix) ==
    /\ Len(s) >= Len(suffix)
    /\ SubSeq(s, Len(s) - Len(suffix) + 1, Len(s)) = suffix

\* str.startswith
StartsWith(s, prefix) ==
    /\ Len(s) >= Len(prefix)
    /\ SubSeq(s, 1, Len(prefix)) = prefix

\* the literal " (disambiguation)" of needs_disambig
DisambigSuffix ==
    <<" ", "(", "d", "i", "s", "a", "m", "b", "i", "g", "u", "a", "t", "i",
      "o", "n", ")">>

----------------------------------------------------------------------------
(* get_article_links: the gateway's side *)

TitleM == <<"M">>
TitleMDab == <<"M">> \o DisambigSuffix
TitleHg == <<"H", "g">>
TitleV == <<"V">>

Absent == [present |-> FALSE, list |-> <<>>]
Present(l) == [present |-> TRUE, list |-> l]

\* The page records a response may carry: a page with a marker template, the
\* same title without the templates key, an explicit "(disambiguation)" title,
\* a page with an empty templates list, a second marked page.
PageUniverse ==
    { [title |-> TitleM, templates |-> Present(<<"Template:Disambiguation">>)],
      [title |-> TitleM, templates |-> Absent],
      [title |-> TitleMDab, templates |-> Present(<<"Template:Disambiguation">>)],
      [title |-> TitleHg, templates |-> Present(<<>>)],
      [title |-> TitleV, templates |-> Present(<<"Template:Human name disambiguation">>)] }

\* The entries a response's redirects list may carry.
RedirectUniverse ==
    { [from |-> TitleHg, to |-> TitleM],
      [from |-> TitleHg, to |-> TitleMDab],
      [from |-> TitleMDab, to |-> TitleV] }

NoToken == "none"
Tokens == {"t1", "t2"}
\* a "continue" object that holds no gplcontinue key (another module's cursor)
OtherContinue == "other"

\* the most batches a gateway chain holds
MaxBatches == 3
\* the most pages, and redirect entries, one batch holds
MaxBatchPages == 1
MaxBatchRedirects == 1

SmallSubsets(S, n) == {X \in SUBSET S : Cardinality(X) <= n}

NoList == [present |-> FALSE, items |-> {}]

\* The responses mediawiki_api.call may return.  query: the "query" envelope
\* is there; pages, redirects: its two keys, each possibly missing; cont: the
\* "continue" object (none, one carrying gplcontinue, one not carrying it).
ResponsesWith(conts) ==
    { [query |-> FALSE, pages |-> NoList, redirects |-> NoList, cont |-> c] :
        c \in conts \ {OtherContinue} }
    \cup
    { [query |-> TRUE, pages |-> p, redirects |-> r, cont |-> c] :
        p \in {NoList} \cup
              {[present |-> TRUE, items |-> X] :
                  X \in SmallSubsets(PageUniverse, MaxBatchPages)},
        r \in {NoList} \cup
              {[present |-> TRUE, items |-> X] :
                  X \in SmallSubsets(RedirectUniverse, MaxBatchRedirects)},
        c \in conts }

\* a batch the gateway may follow by another, and the batch that ends a chain
\* of MaxBatches
ResponsesAny == ResponsesWith(Tokens \cup {NoToken, OtherContinue})
ResponsesLast == ResponsesWith({NoToken})

Responses(last) == IF last THEN ResponsesLast ELSE ResponsesAny

----------------------------------------------------------------------------
(* get_article_links: the resolver's side *)

needs_disambig_any_title(link) ==
    link.templates.present /\ Len(link.templates.list) > 0

\* needs_disambig: not title.endswith(" (disambiguation)") and link.get("templates")
needs_disambig(link) ==
    /\ ~EndsWith(link.title, DisambigSuffix)
    /\ link.templates.present
    /\ Len(link.templates.list) > 0

\* redirects[r["to"]].add(r["from"]) on a defaultdict(set)
AddRedirect(red, r) ==
    IF r.to \in DOMAIN red
    THEN [red EXCEPT ![r.to] = @ \cup {r.from}]
    ELSE [t \in DOMAIN red \cup {r.to} |->
            IF t = r.to THEN {r.from} ELSE red[t]]

RECURSIVE AddRedirects(_, _)
RECURSIVE AddRedirects_last_batch_only(_, _)
AddRedirects_last_batch_only(red, rs) ==
    IF rs = {} THEN [t \in {} |-> {}]
    ELSE LET r == CHOOSE x \in rs : TRUE
         IN AddRedirect(AddRedirects_last_batch_only(red, rs \ {r}), r)

\* for r in data["query"].pop("redirects"): redirects[r["to"]].add(r["from"])
AddRedirects(red, rs) ==
    IF rs = {} THEN red
    ELSE LET r == CHOOSE x \in rs : TRUE
         IN AddRedirects(AddRedirect(red, r), rs \ {r})

\* links.update(page["title"] for page in pages if needs_disambig(page))
UpdateLinks(ls, pages) ==
    ls \cup {p.title : p \in {q \in pages : needs_disambig(q)}}

\* for link in set(links): if link in redirects: links.update(redirects[link])
FoldRedirects(ls, red) ==
    ls \cup UNION {red[l] : l \in ls \cap DOMAIN red}

NoResult == [returned |-> FALSE, list |-> {}]
Returned(ls) == [returned |-> TRUE, list |-> ls]

on_missing_query_returns_partial(ls) ==
    [pc |-> "done", diag |-> TRUE, result |-> Returned(ls)]

\* if "query" not in data: pprint(data); then data["query"] raises KeyError
on_missing_query(ls) ==
    [pc |-> "error", diag |-> TRUE, result |-> NoResult]

Shape(data) ==
    [query |-> data.query, pages |-> data.pages.present,
     redirects |-> data.redirects.present, cont |-> data.cont]

\* the gateway's record of what it served: new items get the batch number
Log(served, items, batch) ==
    [x \in DOMAIN served \cup items |->
        IF x \in DOMAIN served THEN served[x] ELSE batch]

\* the request: mediawiki_api.call(params), answered by the gateway
Request(data) ==
    /\ lpc = "call"
    /\ calls < MaxBatches
    /\ calls' = calls + 1
    /\ sent' = gplcontinue
    /\ lastResp' = Shape(data)
    /\ servedPages' = Log(servedPages, data.pages.items, calls + 1)
    /\ servedRedirects' = Log(servedRedirects, data.redirects.items, calls + 1)
    /\ UNCHANGED <<dabVars, artVars, editVars, oauthVars>>

\* the response has no "query" envelope
CallMalformed(data) ==
    /\ Request(data)
    /\ ~data.query
    /\ LET o == on_missing_query(links)
       IN /\ lpc' = o.pc
          /\ diag' = o.diag
          /\ result' = o.result
    /\ UNCHANGED <<gplcontinue, links, redirects>>

\* data["query"].pop("pages") or data["query"].pop("redirects") raises KeyError
CallMissingKey(data) ==
    /\ Request(data)
    /\ data.query
    /\ ~data.pages.present \/ ~data.redirects.present
    /\ lpc' = "error"
    /\ UNCHANGED <<gplcontinue, links, redirects, result, diag>>

\* a batch that is followed by another: params["gplcontinue"] is set
CallContinue(data) ==
    /\ Request(data)
    /\ data.query /\ data.pages.present /\ data.redirects.present
    /\ data.cont \in Tokens
    /\ redirects' = AddRedirects(redirects, data.redirects.items)
    /\ links' = UpdateLinks(links, data.pages.items)
    /\ gplcontinue' = data.cont
    /\ UNCHANGED <<lpc, result, diag>>

\* data["continue"]["gplcontinue"] raises KeyError, after the batch was read
CallOtherContinue(data) ==
    /\ Request(data)
    /\ data.query /\ data.pages.present /\ data.redirects.present
    /\ data.cont = OtherContinue
    /\ redirects' = AddRedirects(redirects, data.redirects.items)
    /\ links' = UpdateLinks(links, data.pages.items)
    /\ lpc' = "error"
    /\ UNCHANGED <<gplcontinue, result, diag>>

\* the batch without "continue": break, fold the redirects in, return
CallLast(data) ==
    /\ Request(data)
    /\ data.query /\ data.pages.present /\ data.redirects.present
    /\ data.cont = NoToken
    /\ redirects' = AddRedirects(redirects, data.redirects.items)
    /\ LET ls == UpdateLinks(links, data.pages.items)
       IN /\ links' = FoldRedirects(ls, redirects')
          /\ result' = Returned(links')
    /\ lpc' = "done"
    /\ UNCHANGED <<gplcontinue, diag>>

\* the gateway's answer to the request in flight
Batches == Responses(calls + 1 = MaxBatches)

LinksStart ==
    /\ lpc = "call"
    /\ gplcontinue = NoToken
    /\ links = {}
    /\ redirects = [t \in {} |-> {}]
    /\ result = NoResult
    /\ diag = FALSE
    /\ calls = 0
    /\ sent = NoToken
    /\ lastResp = [query |-> TRUE, pages |-> TRUE, redirects |-> TRUE,
                   cont |-> NoToken]
    /\ servedPages = [x \in {} |-> 0]
    /\ servedRedirects = [x \in {} |-> 0]

\* one iteration of the while loop of get_article_links, by its outcome
StepLinks ==
    \/ \E data \in Batches : CallMalformed(data)
    \/ \E data \in Batches : CallMissingKey(data)
    \/ \E data \in Batches : CallContinue(data)
    \/ \E data \in Batches : CallOtherContinue(data)
    \/ \E data \in Batches : CallLast(data)

----------------------------------------------------------------------------
(* get_dab_html: the parsed HTML *)

NoAttr == [present |-> FALSE, val |-> <<>>]
Attr(v) == [present |-> TRUE, val |-> v]

\* An element: its tag, its parent (0: the root element, else the index of an
\* earlier element), and the attributes the code reads or writes.
Elem(tag, parent, cls, id, href) ==
    [tag |-> tag, parent |-> parent, class |-> cls, id |-> id, href |-> href,
     onclick |-> NoAttr]

\* most elements under the root of a parsed page
MaxNodes == 2
\* largest sequence number a preview is rendered with
MaxDabNum == 10

IdValues == {<<"1">>, <<"0", "1">>}

\* The shapes of element a page is built from: anchors with fragment hrefs to
\* the ids, with and without an id of their own; an anchor leaving the page; an
\* anchor with an empty href; an element that is only a target; an anchor to an
\* id no element has; the table of contents.
ElemShapes ==
    { [tag |-> "a", class |-> NoAttr, id |-> i, href |-> Attr(<<"#">> \o t)] :
        i \in {NoAttr} \cup {Attr(v) : v \in IdValues}, t \in IdValues }
    \cup
    { [tag |-> "a", class |-> NoAttr, id |-> NoAttr, href |-> Attr(<<"/", "w">>)],
      [tag |-> "a", class |-> NoAttr, id |-> NoAttr, href |-> Attr(<<>>)],
      [tag |-> "span", class |-> NoAttr, id |-> Attr(<<"1">>), href |-> NoAttr],
      [tag |-> "a", class |-> NoAttr, id |-> NoAttr, href |-> Attr(<<"#", "x">>)],
      [tag |-> "div", class |-> Attr(<<"t", "o", "c">>), id |-> NoAttr,
       href |-> NoAttr] }

\* The pages: up to MaxNodes elements, each a child of the root or of an
\* earlier div.
IsPage(nodes) ==
    \A i \in 1..Len(nodes) :
        \/ nodes[i].parent = 0
        \/ /\ nodes[i].parent \in 1..(i - 1)
           /\ nodes[nodes[i].parent].tag = "div"

Pages ==
    UNION { { nodes \in [1..k -> { Elem(sh.tag, par, sh.class, sh.id, sh.href) :
                                      sh \in ElemShapes, par \in 0..(MaxNodes - 1) }] :
                 IsPage(nodes) } : k \in 0..MaxNodes }

----------------------------------------------------------------------------
(* get_dab_html *)

Digits == <<"0", "1", "2", "3", "4", "5", "6", "7", "8", "9">>

\* str(int) for an int >= 0, as the f-strings format dab_num
RECURSIVE Str(_)
Str(n) ==
    IF n < 10 THEN <<Digits[n + 1]>>
    ELSE Str(n \div 10) \o <<Digits[(n % 10) + 1]>>

TocClass == <<"t", "o", "c">>

\* an element matched by .//div[@class='toc'], or inside one
RECURSIVE InToc(_, _)
InToc(nodes, i) ==
    \/ nodes[i].tag = "div" /\ nodes[i].class = Attr(TocClass)
    \/ nodes[i].parent # 0 /\ InToc(nodes, nodes[i].parent)

\* delete_toc: toc.getparent().remove(toc) for every table of contents
delete_toc(nodes) ==
    LET kept == {i \in 1..Len(nodes) : ~InToc(nodes, i)}
        pos(i) == Cardinality({j \in kept : j <= i})
        at(k) == CHOOSE i \in kept : pos(i) = k
    IN [k \in 1..Cardinality(kept) |->
           [nodes[at(k)] EXCEPT !.parent = IF @ = 0 THEN 0 ELSE pos(@)]]

\* element_id_map = {e.get("id"): e for e in root.findall(".//*[@id]")}:
\* of the elements sharing an id the last one stays in the dict
element_id_map(nodes) ==
    LET withId == {i \in 1..Len(nodes) : nodes[i].id.present}
    IN [v \in {nodes[i].id.val : i \in withId} |->
           CHOOSE i \in withId :
               /\ nodes[i].id.val = v
               /\ \A j \in withId : nodes[j].id.val = v => j <= i]

\* f"return select_dab(this, {dab_num})"
OnClick(dab_num) ==
    <<"r", "e", "t", "u", "r", "n", " ", "s", "e", "l", "e", "c", "t", "_",
      "d", "a", "b", "(", "t", "h", "i", "s", ",", " ">> \o Str(dab_num) \o <<")">>

\* f"{dab_num}{href[1:]}"
prefixed_id(dab_num, name) == Str(dab_num) \o name

\* the loop, were the prefix put before the id the destination has by now
RECURSIVE RewriteFrom_prefix_current_id(_, _, _, _)
RewriteFrom_prefix_current_id(dab_num, nodes, idmap, i) ==
    IF i > Len(nodes) THEN [ok |-> TRUE, nodes |-> nodes]
    ELSE IF ~(nodes[i].tag = "a" /\ nodes[i].href.present)
         THEN RewriteFrom_prefix_current_id(dab_num, nodes, idmap, i + 1)
    ELSE LET href == nodes[i].href.val IN
         IF href = <<>>
         THEN RewriteFrom_prefix_current_id(dab_num, nodes, idmap, i + 1)
         ELSE IF href[1] # "#"
         THEN RewriteFrom_prefix_current_id(dab_num,
                          [nodes EXCEPT ![i].href = Attr(<<"#">>),
                                        ![i].onclick = Attr(OnClick(dab_num))],
                          idmap, i + 1)
         ELSE IF Tail(href) \notin DOMAIN idmap
         THEN [ok |-> FALSE, nodes |-> nodes]
         ELSE LET dest == idmap[Tail(href)]
                  newid == prefixed_id(dab_num, nodes[dest].id.val)
                  renamed == [nodes EXCEPT ![dest].id = Attr(newid)]
              IN RewriteFrom_prefix_current_id(dab_num,
                             [renamed EXCEPT ![i].href = Attr(<<"#">> \o newid)],
                             idmap, i + 1)

\* The loop over root.findall(".//a[@href]"), from anchor i on.  The result
\* is the tree, or the KeyError of element_id_map[href[1:]].
RECURSIVE RewriteFrom(_, _, _, _)
RewriteFrom(dab_num, nodes, idmap, i) ==
    IF i > Len(nodes) THEN [ok |-> TRUE, nodes |-> nodes]
    ELSE IF ~(nodes[i].tag = "a" /\ nodes[i].href.present)
         THEN RewriteFrom(dab_num, nodes, idmap, i + 1)
    ELSE LET href == nodes[i].href.val IN
         IF href = <<>>
         THEN RewriteFrom(dab_num, nodes, idmap, i + 1)
         ELSE IF href[1] # "#"
         THEN RewriteFrom(dab_num,
                          [nodes EXCEPT ![i].href = Attr(<<"#">>),
                                        ![i].onclick = Attr(OnClick(dab_num))],
                          idmap, i + 1)
         ELSE IF Tail(href) \notin DOMAIN idmap
         THEN [ok |-> FALSE, nodes |-> nodes]
         ELSE LET dest == idmap[Tail(href)]
                  renamed == [nodes EXCEPT
                                 ![dest].id = Attr(prefixed_id(dab_num, Tail(href)))]
              IN RewriteFrom(dab_num,
                             [renamed EXCEPT
                                 ![i].href = Attr(<<"#">> \o
                                                  prefixed_id(dab_num, Tail(href)))],
                             idmap, i + 1)

\* get_dab_html(dab_num, html) on the parsed tree
get_dab_html(dab_num, nodes) ==
    LET tree == delete_toc(nodes)
    IN RewriteFrom(dab_num, tree, element_id_map(tree), 1)

NoPreview == [num |-> -1, ok |-> FALSE, nodes |-> <<>>]
Preview(dab_num, nodes) ==
    LET out == get_dab_html(dab_num, nodes)
    IN [num |-> dab_num, ok |-> out.ok, nodes |-> out.nodes]

DabStart ==
    /\ first = NoPreview
    /\ second = NoPreview

\* a page is rendered as the preview of one link
RenderFirst ==
    /\ first = NoPreview
    /\ \E n \in 0..MaxDabNum : first' = Preview(n, html)
    /\ UNCHANGED <<html, second>>
    /\ UNCHANGED <<linkVars, artVars, editVars, oauthVars>>

\* the same page is rendered again, for a later link to the same title
RenderSecond ==
    /\ first # NoPreview
    /\ second = NoPreview
    /\ \E n \in (first.num + 1)..MaxDabNum : second' = Preview(n, html)
    /\ UNCHANGED <<html, first>>
    /\ UNCHANGED <<linkVars, artVars, editVars, oauthVars>>

----------------------------------------------------------------------------
(* Article: load and process_links *)

TitleX == <<"X">>
TitleP == <<"P">>

\* most a[@href] elements in an article
MaxAnchors == 3

\* An anchor of the article: the attributes iter_links and process_links use.
Anchor(title) == [href |-> Attr(<<"/", "w">>), title |-> title, class |-> NoAttr,
                  id |-> NoAttr]

\* titles an anchor of the article may carry, and the anchor without a title
AnchorTitles == {Attr(TitleM), Attr(TitleV), Attr(TitleX), Attr(TitleP), NoAttr}

\* an a element without href, which .//a[@href] does not select
Unlinked(title) == [Anchor(title) EXCEPT !.href = NoAttr]

Articles ==
    UNION { [1..k -> {Anchor(t) : t \in AnchorTitles} \cup {Unlinked(Attr(TitleM))}] :
              k \in 0..MaxAnchors }

\* what get_article_links may have returned for the article
LinkSets == SUBSET {TitleM, TitleV, TitleX}

\* get_article_html(title): the parsed page the gateway holds for a title.  The
\* page of TitleX has an anchor to an id that no element carries.
PageOf(title) ==
    IF title = TitleM
    THEN << Elem("a", 0, NoAttr, NoAttr, Attr(<<"#", "1">>)),
            Elem("span", 0, NoAttr, Attr(<<"1">>), NoAttr) >>
    ELSE IF title = TitleX
    THEN << Elem("a", 0, NoAttr, NoAttr, Attr(<<"#", "x">>)) >>
    ELSE << Elem("a", 0, NoAttr, NoAttr, Attr(<<"/", "w">>)) >>

DisambigClass == <<"d", "i", "s", "a", "m", "b", "i", "g">>
\* f"dab-{dab_num}"
DabId(dab_num) == <<"d", "a", "b", "-">> \o Str(dab_num)

\* the elements of a set of indices, in increasing order
RECURSIVE InOrder(_)
InOrder(S) ==
    IF S = {} THEN <<>>
    ELSE LET m == CHOOSE x \in S : \A y \in S : x <= y
         IN <<m>> \o InOrder(S \ {m})

iter_links_any_title(r, lks) ==
    InOrder({i \in 1..Len(r) : r[i].href.present /\ r[i].title.present})

\* Article.iter_links of dab_mechanic/wikipedia.py: the anchors it yields, by
\* index, in document order
iter_links(r, lks) ==
    InOrder({i \in 1..Len(r) :
                /\ r[i].href.present
                /\ r[i].title.present
                /\ r[i].title.val \in lks})

Extend(f, k, v) == [x \in DOMAIN f \cup {k} |-> IF x = k THEN v ELSE f[x]]

\* the body of the for loop of Article.process_links of dab_mechanic/wikipedia.py,
\* for the anchors still to come
RECURSIVE process_from(_, _, _)
process_from(st, todo, dab_num) ==
    IF todo = <<>> THEN st
    ELSE LET i == Head(todo)
             title == st.root[i].title.val
             tagged == [st.root EXCEPT ![i].class = Attr(DisambigClass),
                                       ![i].id = Attr(DabId(dab_num))]
             miss == title \notin DOMAIN st.dab_html
             cache == IF miss THEN Extend(st.dab_html, title, PageOf(title))
                      ELSE st.dab_html
             calls_made == IF miss THEN Append(st.fetched, title) ELSE st.fetched
             out == get_dab_html(dab_num, cache[title])
         IN IF ~out.ok
            THEN [st EXCEPT !.root = tagged, !.dab_html = cache,
                            !.fetched = calls_made, !.ok = FALSE]
            ELSE process_from(
                     [st EXCEPT !.root = tagged, !.dab_html = cache,
                                !.fetched = calls_made,
                                !.dab_list = Append(@, [num |-> dab_num,
                                                        title |-> title,
                                                        html |-> out.nodes]),
                                !.dab_order = Append(@, title),
                                !.dab_lookup = Extend(@, dab_num, title)],
                     Tail(todo), dab_num + 1)

\* Article.iter_links and Article.process_links of web_view.py, from element i
\* on: every qualifying anchor gets the class, the first of each title is
\* yielded and gets an id and a DabItem
RECURSIVE process_from_web_view(_, _, _, _)
process_from_web_view(st, i, dab_num, seen) ==
    IF i > Len(st.root) THEN st
    ELSE IF ~(/\ st.root[i].href.present
              /\ st.root[i].title.present
              /\ st.root[i].title.val \in st.links)
         THEN process_from_web_view(st, i + 1, dab_num, seen)
    ELSE LET title == st.root[i].title.val
             classed == [st.root EXCEPT ![i].class = Attr(DisambigClass)]
         IN IF title \in seen
            THEN process_from_web_view([st EXCEPT !.root = classed], i + 1,
                                       dab_num, seen)
            ELSE LET tagged == [classed EXCEPT ![i].id = Attr(DabId(dab_num))]
                     out == get_dab_html(dab_num, PageOf(title))
                 IN IF ~out.ok
                    THEN [st EXCEPT !.root = tagged,
                                    !.fetched = Append(@, title), !.ok = FALSE]
                    ELSE process_from_web_view(
                             [st EXCEPT !.root = tagged,
                                        !.fetched = Append(@, title),
                                        !.dab_list = Append(@, [num |-> dab_num,
                                                                title |-> title,
                                                                html |-> out.nodes]),
                                        !.dab_order = Append(@, title),
                                        !.dab_lookup = Extend(@, dab_num, title)],
                             i + 1, dab_num + 1, seen \cup {title})

ArticleState ==
    [root |-> root, links |-> self_links, dab_list |-> dab_list,
     dab_order |-> dab_order, dab_lookup |-> dab_lookup, dab_html |-> dab_html,
     fetched |-> fetched, ok |-> TRUE]

Becomes(st, version) ==
    /\ apc' = IF st.ok THEN version ELSE "error"
    /\ root' = st.root
    /\ dab_list' = st.dab_list
    /\ dab_order' = st.dab_order
    /\ dab_lookup' = st.dab_lookup
    /\ dab_html' = st.dab_html
    /\ fetched' = st.fetched
    /\ UNCHANGED self_links
    /\ UNCHANGED <<linkVars, dabVars, editVars, oauthVars>>

\* Article.process_links of dab_mechanic/wikipedia.py
process_links ==
    /\ apc = "loaded"
    /\ Becomes(process_from(ArticleState, iter_links(root, self_links), 0),
               "wikipedia")

\* Article.process_links of web_view.py
process_links_web_view ==
    /\ apc = "loaded"
    /\ Becomes(process_from_web_view(ArticleState, 1, 0, {}), "web_view")

----------------------------------------------------------------------------
(* save and apply_edits (web_view.py) *)

\* Wikitext is a sequence of characters.  The two nowiki tags are kept as one
\* symbol each: no pattern built below has a character of theirs.
NowikiOpen == "<nowiki>"
NowikiClose == "</nowiki>"

\* most edits in one submission, most pieces in one article text
MaxEdits == 3
MaxPieces == 2

\* the (link_from, link_to) pairs a submission is made of
EditUniverse ==
    { << <<"a">>, <<"c">> >>,
      << <<"a">>, <<"d">> >>,
      << <<"a", " ", "b">>, <<"d">> >> }

Submissions == UNION { [1..k -> EditUniverse] : k \in 0..MaxEdits }

\* the pieces an article text is made of: links to the titles above, bare and
\* piped and spelled with an underscore, a link to another title, plain text,
\* and bracket text inside nowiki
Pieces ==
    { <<"[", "[", "a", "]", "]">>,
      <<"[", "[", "a", "|", "x", "]", "]">>,
      <<"[", "[", "a", "_", "b", "]", "]">>,
      <<"[", "[", "b", "]", "]">>,
      <<"x", " ">>,
      <<NowikiOpen, "[", "[", "a", "]", "]", NowikiClose>> }

RECURSIVE Concat(_)
Concat(ss) == IF ss = <<>> THEN <<>> ELSE Head(ss) \o Concat(Tail(ss))

Texts == { Concat(ps) : ps \in UNION { [1..k -> Pieces] : k \in 0..MaxPieces } }

\* escape: re.escape(s).replace("_", "[ _]").replace(r"\ ", "[ _]").  The result
\* is a pattern, here one set of characters per position: re.escape leaves a
\* letter, a digit and "_" as they are and puts a backslash before any other
\* character, so that it matches itself; "_" and the escaped space then become
\* the class [ _].
escape(str) ==
    [i \in 1..Len(str) |->
        IF str[i] \in {"_", " "} THEN {" ", "_"} ELSE {str[i]}]

\* rf"\[\[{escape(link_from)}\]\]"
pattern(link_from) ==
    << {"["}, {"["} >> \o escape(link_from) \o << {"]"}, {"]"} >>

\* f"[[{link_to}|{link_from}]]"
replacement(link_from, link_to) ==
    <<"[", "[">> \o link_to \o <<"|">> \o link_from \o <<"]", "]">>

MatchesAt(pat, text, i) ==
    /\ i + Len(pat) - 1 <= Len(text)
    /\ \A k \in 1..Len(pat) : text[i + k - 1] \in pat[k]

\* re.sub(pat, repl, text) for a pattern of fixed length: the matches are
\* taken leftmost first and do not overlap
RECURSIVE re_sub_from(_, _, _, _)
re_sub_from(pat, repl, text, i) ==
    IF i > Len(text) THEN <<>>
    ELSE IF MatchesAt(pat, text, i)
         THEN repl \o re_sub_from(pat, repl, text, i + Len(pat))
         ELSE <<text[i]>> \o re_sub_from(pat, repl, text, i + 1)

re_sub(pat, repl, text) == re_sub_from(pat, repl, text, 1)

\* apply_edits(article_text, edits)
RECURSIVE apply_edits(_, _)
apply_edits(text, es) ==
    IF es = <<>> THEN text
    ELSE LET link_from == Head(es)[1]
             link_to == Head(es)[2]
         IN apply_edits(re_sub(pattern(link_from),
                               replacement(link_from, link_to), text),
                        Tail(es))

\* make_disamb_link(edit): f"[[{edit[1]}|{edit[0]}]]"
make_disamb_link(edit) ==
    <<"[", "[">> \o edit[2] \o <<"|">> \o edit[1] \o <<"]", "]">>

\* ", ".join(parts)
RECURSIVE JoinComma(_)
JoinComma(parts) ==
    IF parts = <<>> THEN <<>>
    ELSE IF Len(parts) = 1 THEN parts[1]
    ELSE parts[1] \o <<",", " ">> \o JoinComma(Tail(parts))

And == <<" ", "a", "n", "d", " ">>

summary_titles_and_from_three(es) ==
    LET titles == JoinComma([k \in 1..(Len(es) - 1) |-> make_disamb_link(es[k])])
    IN (IF Len(es) > 2 THEN titles \o And ELSE titles)
       \o make_disamb_link(es[Len(es)])

\* titles = ", ".join(make_disamb_link(edit) for edit in edits[:-1])
\* if len(titles) > 1: titles += " and "
\* titles += make_disamb_link(edits[-1])
summary_titles(es) ==
    LET titles == JoinComma([k \in 1..(Len(es) - 1) |-> make_disamb_link(es[k])])
    IN (IF Len(titles) > 1 THEN titles \o And ELSE titles)
       \o make_disamb_link(es[Len(es)])

Disambiguate == <<"D", "i", "s", "a", "m", "b", "i", "g", "u", "a", "t", "e", " ">>
Using == <<" ", "u", "s", "i", "n", "g", " ">>
Attribution == 
    <<"[", "[", "U", "s", "e", "r", ":", "E", "d", "w", "a", "r", "d", "/">> \o
    <<"D", "a", "b", " ", "m", "e", "c", "h", "a", "n", "i", "c", "]", "]">>

\* f"Disambiguate {titles} using [[User:Edward/Dab mechanic]]"
summary(es) == Disambiguate \o summary_titles(es) \o Using \o Attribution

\* a call of apply_edits on the article's text
CallApplyEdits ==
    /\ epc = "request"
    /\ epc' = "applied"
    /\ article_text' = apply_edits(content, edits)
    /\ UNCHANGED <<content, edits, edit_summary>>
    /\ UNCHANGED <<linkVars, dabVars, artVars, oauthVars>>

\* save(enwiki): edits[-1] raises IndexError when no edit was submitted
save ==
    /\ epc = "request"
    /\ IF edits = <<>>
       THEN /\ epc' = "error"
            /\ UNCHANGED <<article_text, edit_summary>>
       ELSE /\ epc' = "saved"
            /\ edit_summary' = summary(edits)
            /\ article_text' = apply_edits(content, edits)
    /\ UNCHANGED <<content, edits>>
    /\ UNCHANGED <<linkVars, dabVars, artVars, oauthVars>>

----------------------------------------------------------------------------
(* The OAuth session: start_oauth, oauth_callback, oauth_disconnect and
   get_username, which runs before every request *)

\* the accounts a user may authorize the tool as
Accounts == {"A", "B"}
NoAccount == "nobody"

\* most request tokens issued in one run
MaxLogins == 2

\* the token pair fetch_request_token returns: it authenticates nobody
RequestToken(n) == [kind |-> "request", acct |-> NoAccount, n |-> n]
\* the token pair fetch_access_token returns once acct has authorized
AccessToken(acct, n) == [kind |-> "access", acct |-> acct, n |-> n]

NextPage == <<"/", "e", "n", "w", "i", "k", "i", "/", "M">>

\* session[key] = value
SessionSet(sess, key, value) ==
    [k \in DOMAIN sess \cup {key} |-> IF k = key THEN value ELSE sess[k]]

\* del session[key] for the keys the session holds
SessionDel(sess, keys) == [k \in DOMAIN sess \ keys |-> sess[k]]

\* The replies userinfo_call may get for the tokens of the session: the name
\* of the account an access token authenticates, or a reply without "query"
\* (an error of the wiki; the only reply to a request token).
NoQuery == [query |-> FALSE, name |-> NoAccount]
UserinfoReplies(sess) ==
    {NoQuery} \cup
    (IF sess["owner_key"].kind = "access"
     THEN {[query |-> TRUE, name |-> sess["owner_key"].acct]}
     ELSE {})

\* get_username: the session after it and the name it returns (NoAccount for
\* None); reply is what userinfo_call gets if it is called
get_username(sess, reply) ==
    IF "owner_key" \notin DOMAIN sess
    THEN [session |-> sess, user |-> NoAccount]
    ELSE IF "username" \in DOMAIN sess
    THEN [session |-> sess, user |-> sess["username"]]
    ELSE IF ~reply.query
    THEN [session |-> sess, user |-> NoAccount]
    ELSE [session |-> SessionSet(sess, "username", reply.name),
          user |-> reply.name]

\* global_user, the before_request hook: the outcomes of get_username
global_user(sess) ==
    IF "owner_key" \in DOMAIN sess /\ "username" \notin DOMAIN sess
    THEN {get_username(sess, reply) : reply \in UserinfoReplies(sess)}
    ELSE {get_username(sess, NoQuery)}

OauthStart ==
    /\ opc = "none"
    /\ session = [k \in {} |-> NoAccount]
    /\ g_user = NoAccount
    /\ issued = 0

\* a request to a route that leaves the session alone
page ==
    /\ \E before \in global_user(session) :
          /\ g_user' = before.user
          /\ session' = before.session
    /\ opc' = "page"
    /\ UNCHANGED issued
    /\ UNCHANGED <<linkVars, dabVars, artVars, editVars>>

\* start_oauth: the request token replaces the owner key and secret
start_oauth ==
    /\ issued < MaxLogins
    /\ \E before \in global_user(session), next_page \in {<<>>, NextPage} :
          LET sess == IF next_page # <<>>
                      THEN SessionSet(before.session, "after_login", next_page)
                      ELSE before.session
              token == RequestToken(issued + 1)
          IN /\ g_user' = before.user
             /\ session' = SessionSet(SessionSet(sess, "owner_key", token),
                                      "owner_secret", token)
    /\ issued' = issued + 1
    /\ opc' = "start"
    /\ UNCHANGED <<linkVars, dabVars, artVars, editVars>>

\* start_oauth raises: fetch_request_token fails, after after_login was set
start_oauth_fails ==
    /\ \E before \in global_user(session), next_page \in {<<>>, NextPage} :
          /\ g_user' = before.user
          /\ session' = IF next_page # <<>>
                        THEN SessionSet(before.session, "after_login", next_page)
                        ELSE before.session
    /\ opc' = "start raised"
    /\ UNCHANGED issued
    /\ UNCHANGED <<linkVars, dabVars, artVars, editVars>>

\* oauth_callback: the user authorized the tool as acct, and the access token
\* replaces the owner key and secret
oauth_callback ==
    /\ "owner_key" \in DOMAIN session
    /\ session["owner_key"].kind = "request"
    /\ \E before \in global_user(session), acct \in Accounts :
          LET token == AccessToken(acct, session["owner_key"].n)
          IN /\ g_user' = before.user
             /\ session' = SessionSet(SessionSet(before.session, "owner_key", token),
                                      "owner_secret", token)
    /\ opc' = "callback"
    /\ UNCHANGED issued
    /\ UNCHANGED <<linkVars, dabVars, artVars, editVars>>

\* oauth_callback raises: session["owner_key"] is missing (KeyError), or the
\* wiki refuses the token exchange (no authorization, or a token that is not
\* a pending request token)
oauth_callback_fails ==
    /\ \E before \in global_user(session) :
          /\ g_user' = before.user
          /\ session' = before.session
    /\ opc' = "callback raised"
    /\ UNCHANGED issued
    /\ UNCHANGED <<linkVars, dabVars, artVars, editVars>>

\* oauth_disconnect: the four keys are deleted
oauth_disconnect ==
    /\ \E before \in global_user(session) :
          /\ g_user' = before.user
          /\ session' = SessionDel(before.session,
                                   {"owner_key", "owner_secret", "username",
                                    "after_login"})
    /\ opc' = "disconnect"
    /\ UNCHANGED issued
    /\ UNCHANGED <<linkVars, dabVars, artVars, editVars>>

----------------------------------------------------------------------------
(* Specifications *)

\* The components do not share state: each is checked from the start state of
\* the others, which stay there.
ArtStart ==
    /\ apc = "loaded"
    /\ dab_list = <<>>
    /\ dab_order = <<>>
    /\ dab_lookup = [n \in {} |-> <<>>]
    /\ dab_html = [t \in {} |-> <<>>]
    /\ fetched = <<>>

EditStart ==
    /\ epc = "request"
    /\ article_text = <<>>
    /\ edit_summary = <<>>

LinksIdle == LinksStart
DabIdle == DabStart /\ html = <<>>
ArtIdle == ArtStart /\ root = <<>> /\ self_links = {}
EditIdle == EditStart /\ content = <<>> /\ edits = <<>>
OauthIdle == OauthStart

InitLinks == LinksStart /\ DabIdle /\ ArtIdle /\ EditIdle /\ OauthIdle
NextLinks == StepLinks
SpecLinks == InitLinks /\ [][NextLinks]_vars

InitDab ==
    /\ LinksIdle /\ ArtIdle /\ EditIdle /\ OauthIdle
    /\ DabStart /\ html \in Pages
NextDab == RenderFirst \/ RenderSecond
SpecDab == InitDab /\ [][NextDab]_vars

InitArt ==
    /\ LinksIdle /\ DabIdle /\ EditIdle /\ OauthIdle
    /\ ArtStart /\ root \in Articles /\ self_links \in LinkSets
NextArt == process_links \/ process_links_web_view
SpecArt == InitArt /\ [][NextArt]_vars

InitEdit ==
    /\ LinksIdle /\ DabIdle /\ ArtIdle /\ OauthIdle
    /\ EditStart /\ content \in Texts /\ edits \in Submissions
NextEdit == CallApplyEdits \/ save
SpecEdit == InitEdit /\ [][NextEdit]_vars

InitOauth == LinksIdle /\ DabIdle /\ ArtIdle /\ EditIdle /\ OauthStart
NextOauth ==
    \/ page
    \/ start_oauth
    \/ start_oauth_fails
    \/ oauth_callback
    \/ oauth_callback_fails
    \/ oauth_disconnect
SpecOauth == InitOauth /\ [][NextOauth]_vars

----------------------------------------------------------------------------
(* Claims about get_article_links *)

\* The pages and redirect entries of all batches together, however split.
AllPages == DOMAIN servedPages
AllRedirects == DOMAIN servedRedirects

\* A page that counts: it carries a non-empty templates list and its title
\* does not end with " (disambiguation)".
Counts(p) ==
    /\ p.templates # Absent
    /\ p.templates.list # <<>>
    /\ \/ Len(p.title) < Len(DisambigSuffix)
       \/ \E i \in 1..Len(DisambigSuffix) :
             p.title[Len(p.title) - Len(DisambigSuffix) + i] # DisambigSuffix[i]

CountingTitles == {p.title : p \in {q \in AllPages : Counts(q)}}

\* C1 as stated: whatever the split into batches, the size of the returned
\* set is the number of distinct titles that count.
C1_SizeIsCountingTitles ==
    result.returned => Cardinality(result.list) = Cardinality(CountingTitles)

\* C1 amended: whenever get_article_links returns, the returned set is the
\* distinct titles that count together with every redirect source whose target
\* is such a title; it is a function of the pages and redirect entries served,
\* not of their split into batches.
C1_ResultIsClosureOfServed ==
    result.returned =>
        result.list = CountingTitles \cup
                      {r.from : r \in {x \in AllRedirects : x.to \in CountingTitles}}

\* C1 witness: a return after two or more batches, with a page lacking the
\* templates key served, and a redirect source in the result.
C1_Witness ==
    /\ lpc = "done"
    /\ calls >= 2
    /\ \E p \in AllPages : p.templates = Absent
    /\ Cardinality(result.list) > Cardinality(CountingTitles)

\* C2: if a batch's redirects list says A redirects to B and B is accepted as a
\* disambiguation link in any batch, A is in the returned set.
C2_RedirectClosure ==
    lpc = "done" =>
        \A r \in AllRedirects :
            (\E p \in AllPages : p.title = r.to /\ Counts(p)) =>
                r.from \in result.list

\* C2 witness: the redirect entry came in an earlier batch than the page it
\* points to, and its source was returned.
C2_Witness ==
    /\ lpc = "done"
    /\ \E r \in AllRedirects :
          /\ \E p \in AllPages : p.title = r.to /\ Counts(p)
          /\ \A p \in AllPages :
                (p.title = r.to /\ Counts(p)) => servedPages[p] > servedRedirects[r]
          /\ r.from \in result.list

\* C9: a response without the "query" envelope ends the call in an error, after
\* a diagnostic, and nothing is returned.
C9_MalformedRaises ==
    (calls > 0 /\ ~lastResp.query) =>
        /\ lpc = "error"
        /\ diag
        /\ ~result.returned

\* C9 witness: a later batch lacks the envelope, after titles were accumulated.
C9_Witness ==
    /\ calls >= 2
    /\ ~lastResp.query
    /\ links # {}
    /\ lpc = "error"

\* A batch of a well-formed chain: the envelope with its pages, and a
\* continuation that carries the generator's token when there is one.
WellFormedBatch(shape) ==
    shape.query /\ shape.pages /\ shape.cont # OtherContinue

\* C10, the token is echoed: the next request's parameter is the token of the
\* latest response (none before the first request).
C10_TokenEchoed ==
    lpc = "call" =>
        gplcontinue = (IF calls = 0 THEN NoToken ELSE lastResp.cont)

\* C10, the loop goes on only after a response that carried a token.
C10_NoRequestAfterLastBatch ==
    (lpc = "call" /\ calls > 0) => lastResp.cont \in Tokens

\* C10 as stated: the token is echoed, no request follows a response without
\* a token, and a chain of m well-formed batches gets exactly m calls: the call
\* ends only at the batch that carries no token.
C10_PaginationProtocol ==
    /\ C10_TokenEchoed
    /\ C10_NoRequestAfterLastBatch
    /\ (lpc # "call" /\ WellFormedBatch(lastResp)) => lastResp.cont = NoToken

\* C10, what holds: a chain whose batches all carry a redirects list is read
\* to its end, and the call returns.
C10_ChainWithRedirectsReadToEnd ==
    (lpc # "call" /\ WellFormedBatch(lastResp) /\ lastResp.redirects) =>
        (lpc = "done" /\ lastResp.cont = NoToken)

----------------------------------------------------------------------------
(* Claims about get_dab_html *)

\* The ids a render rewrote: those of its output that differ from the id the
\* same element had in the input (after the table of contents was deleted).
RewrittenIds(preview) ==
    LET before == delete_toc(html)
    IN {preview.nodes[i].id.val :
           i \in {j \in 1..Len(preview.nodes) :
                      /\ preview.nodes[j].id.present
                      /\ preview.nodes[j].id # before[j].id}}

\* C3 as stated: two renders of the same html with different sequence numbers
\* rewrite disjoint sets of element ids.
C3_RewrittenIdsDisjoint ==
    (first.ok /\ second.ok /\ first.num # second.num) =>
        RewrittenIds(first) \cap RewrittenIds(second) = {}

----------------------------------------------------------------------------
(* Claims about Article.process_links *)

\* The titles of the qualifying links of the article, one per occurrence, in
\* document order: a elements with an href whose title is a candidate title.
RECURSIVE QualifyingFrom(_)
QualifyingFrom(i) ==
    IF i > Len(root) THEN <<>>
    ELSE (IF root[i].href # NoAttr /\ root[i].title # NoAttr
             /\ \E t \in self_links : root[i].title = Attr(t)
          THEN <<root[i].title.val>> ELSE <<>>) \o QualifyingFrom(i + 1)

QualifyingOccurrences == QualifyingFrom(1)

\* a sequence without the later occurrences of its elements
RECURSIVE FirstOccurrences(_)
FirstOccurrences(q) ==
    IF q = <<>> THEN <<>>
    ELSE LET rest == FirstOccurrences(SubSeq(q, 1, Len(q) - 1))
             last == q[Len(q)]
         IN IF \E j \in 1..Len(rest) : rest[j] = last THEN rest
            ELSE Append(rest, last)

DabTitles == [k \in 1..Len(dab_list) |-> dab_list[k].title]

----------------------------------------------------------------------------
(* Claims about apply_edits and save *)

\* The reading of wikitext the claims speak of: a wikilink is [[target]] or
\* [[target|display]] with no bracket inside, outside nowiki; everything else
\* is text, one item per character.
TextItem(c) == [kind |-> "text", target |-> <<c>>, display |-> NoAttr]

LinkItem(body) ==
    LET bars == {k \in 1..Len(body) : body[k] = "|"}
    IN IF bars = {}
       THEN [kind |-> "link", target |-> body, display |-> NoAttr]
       ELSE LET b == CHOOSE k \in bars : \A m \in bars : k <= m
            IN [kind |-> "link", target |-> SubSeq(body, 1, b - 1),
                display |-> Attr(SubSeq(body, b + 1, Len(body)))]

\* the positions j at which a link opened at i closes
LinkEnds(text, i) ==
    {j \in (i + 2)..(Len(text) - 1) :
        /\ text[j] = "]" /\ text[j + 1] = "]"
        /\ \A k \in (i + 2)..(j - 1) :
              text[k] \notin {"[", "]", NowikiOpen, NowikiClose}}

RECURSIVE ParseFrom(_, _)
ParseFrom(text, i) ==
    IF i > Len(text) THEN <<>>
    ELSE IF text[i] = NowikiOpen
    THEN LET closes == {j \in i..Len(text) : text[j] = NowikiClose}
             j == IF closes = {} THEN Len(text)
                  ELSE CHOOSE x \in closes : \A y \in closes : x <= y
         IN [k \in 1..(j - i + 1) |-> TextItem(text[i + k - 1])]
            \o ParseFrom(text, j + 1)
    ELSE IF /\ i + 1 <= Len(text)
            /\ text[i] = "[" /\ text[i + 1] = "["
            /\ LinkEnds(text, i) # {}
    THEN LET j == CHOOSE x \in LinkEnds(text, i) : TRUE
         IN <<LinkItem(SubSeq(text, i + 2, j - 1))>> \o ParseFrom(text, j + 2)
    ELSE <<TextItem(text[i])>> \o ParseFrom(text, i + 1)

Parse(text) == ParseFrom(text, 1)
LinksOf(text) == SelectSeq(Parse(text), LAMBDA it : it.kind = "link")

\* a title with its underscores read as spaces, as the wiki reads it
Norm(title) == [k \in 1..Len(title) |-> IF title[k] = "_" THEN " " ELSE title[k]]

\* the link names the linkTarget of an edit, letter for letter
Targeted(item) ==
    item.kind = "link" /\ \E k \in 1..Len(edits) : edits[k][1] = item.target

\* the link names the page an edit is about, in either spelling
TargetedPage(item) ==
    item.kind = "link"
    /\ \E k \in 1..Len(edits) : Norm(edits[k][1]) = Norm(item.target)

Returned_text == epc \in {"applied", "saved"}

\* C4 as stated: every targeted link keeps its display text and gets the chosen
\* title: [[T]] becomes [[C|T]] and [[T|d]] becomes [[C|d]].
C4_DisplayTextPreserved ==
    Returned_text =>
        LET before == LinksOf(content)
            after == LinksOf(article_text)
        IN /\ Len(after) = Len(before)
           /\ \A i \in 1..Len(before) :
                 Targeted(before[i]) =>
                     /\ \E k \in 1..Len(edits) :
                           /\ edits[k][1] = before[i].target
                           /\ after[i].target = edits[k][2]
                     /\ after[i].display =
                           Attr(IF before[i].display.present
                                THEN before[i].display.val
                                ELSE before[i].target)

\* C4, what holds: the bare form [[T]] becomes [[C|T]] ...
C4_BareLinkRewritten ==
    Returned_text =>
        LET before == LinksOf(content)
            after == LinksOf(article_text)
        IN /\ Len(after) = Len(before)
           /\ \A i \in 1..Len(before) :
                 (Targeted(before[i]) /\ ~before[i].display.present) =>
                     /\ \E k \in 1..Len(edits) :
                           /\ edits[k][1] = before[i].target
                           /\ after[i].target = edits[k][2]
                     /\ after[i].display = Attr(before[i].target)

\* ... and the piped form [[T|d]] is left as it was.
C4_PipedLinkUntouched ==
    Returned_text =>
        LET before == LinksOf(content)
            after == LinksOf(article_text)
        IN \A i \in 1..Len(before) :
               before[i].display.present => after[i] = before[i]

\* C5 as stated: a text is returned only when the number of targeted links
\* equals the number of edits; any mismatch ends in an error.
C5_MismatchFails ==
    Returned_text =>
        Cardinality({i \in 1..Len(LinksOf(content)) : Targeted(LinksOf(content)[i])})
            = Len(edits)

\* C6 as stated: with no edits the text is returned as it was, and every item
\* of the text that is not a link to an edit's page is in the output, in the
\* same place and unchanged.
C6_OthersUntouched ==
    Returned_text =>
        LET before == Parse(content)
            after == Parse(article_text)
        IN /\ edits = <<>> => article_text = content
           /\ Len(after) = Len(before)
           /\ \A i \in 1..Len(before) :
                 ~TargetedPage(before[i]) => after[i] = before[i]

\* C6, what holds: outside nowiki, the items that are not links to an edit's
\* page are unchanged.
C6_UntouchedOutsideNowiki ==
    (Returned_text /\ \A k \in 1..Len(content) : content[k] # NowikiOpen) =>
        LET before == Parse(content)
            after == Parse(article_text)
        IN /\ edits = <<>> => article_text = content
           /\ Len(after) = Len(before)
           /\ \A i \in 1..Len(before) :
                 ~TargetedPage(before[i]) => after[i] = before[i]

\* The list of links of the summary: one link alone; else the links but the
\* last one separated by ", ", then " and ", then the last one.
RECURSIVE ListedFrom(_)
ListedFrom(es) ==
    IF Len(es) = 1
    THEN <<"[", "[">> \o es[1][2] \o <<"|">> \o es[1][1] \o <<"]", "]">>
    ELSE <<"[", "[">> \o es[1][2] \o <<"|">> \o es[1][1] \o <<"]", "]">>
         \o (IF Len(es) = 2 THEN <<" ", "a", "n", "d", " ">> ELSE <<",", " ">>)
         \o ListedFrom(Tail(es))

\* the number of places where part occurs in str
Occurrences(part, str) ==
    Cardinality({i \in 1..Len(str) :
                    /\ i + Len(part) - 1 <= Len(str)
                    /\ SubSeq(str, i, i + Len(part) - 1) = part})

\* C8: the summary is "Disambiguate " + L + " using " + attribution, with
\* " and " once, before the last of two or more links, and not for one link.
C8_SummaryFormat ==
    epc = "saved" =>
        /\ edit_summary =
              <<"D", "i", "s", "a", "m", "b", "i", "g", "u", "a", "t", "e", " ">> \o ListedFrom(edits) \o <<" ", "u", "s", "i", "n", "g", " ">>
              \o 
                 <<"[", "[", "U", "s", "e", "r", ":", "E", "d", "w", "a", "r", "d", "/", "D", "a", "b", " ", "m", "e", "c", "h", "a", "n", "i", "c", "]", "]">>
        /\ Occurrences(<<" ", "a", "n", "d", " ">>, edit_summary)
              = (IF Len(edits) >= 2 THEN 1 ELSE 0)

\* C8 witness: a summary of three edits.
C8_Witness ==
    /\ epc = "saved"
    /\ Len(edits) = 3
    /\ edits[1] # edits[2]

----------------------------------------------------------------------------
(* Claims about the fragment references of get_dab_html *)

\* the anchors the loop visits: a elements with an href that is not empty
Visited(nodes) ==
    {i \in 1..Len(nodes) :
        nodes[i].tag = "a" /\ nodes[i].href.present /\ nodes[i].href.val # <<>>}

\* the elements that have the id x
WithId(nodes, x) == {j \in 1..Len(nodes) : nodes[j].id = Attr(x)}

\* an anchor leaving the page has href "#" and the hook of the render
Neutralized(preview, i) ==
    /\ preview.nodes[i].href = Attr(<<"#">>)
    /\ preview.nodes[i].onclick = Attr(OnClick(preview.num))

\* C11 as stated, of one render: every anchor to #X has href #nX and the
\* elements that had id X have id nX; every anchor leaving the page has href
\* "#" and the hook.
FragmentsConsistent(preview) ==
    LET before == delete_toc(html)
        n == Str(preview.num)
    IN \A i \in Visited(before) :
           IF before[i].href.val[1] = "#"
           THEN LET x == Tail(before[i].href.val)
                IN /\ preview.nodes[i].href = Attr(<<"#">> \o n \o x)
                   /\ \A j \in WithId(before, x) :
                         preview.nodes[j].id = Attr(n \o x)
           ELSE Neutralized(preview, i)

\* C11 as stated: after a successful render the fragment references are
\* consistent, whatever elements had the referenced id.
C11_FragmentsConsistent ==
    /\ first.ok => FragmentsConsistent(first)
    /\ second.ok => FragmentsConsistent(second)

\* C11 amended, of one render: every anchor to #X has href #nX, and of the
\* elements that had id X the last one in document order has id nX, prefixed
\* once however many anchors reference it, while the earlier ones keep the id
\* X; every anchor leaving the page has href "#" and the hook.
LastTargetRenamed(preview) ==
    LET before == delete_toc(html)
        n == Str(preview.num)
    IN \A i \in Visited(before) :
           IF before[i].href.val[1] = "#"
           THEN LET x == Tail(before[i].href.val)
                    last == CHOOSE j \in WithId(before, x) :
                                \A k \in WithId(before, x) : k <= j
                IN /\ preview.nodes[i].href = Attr(<<"#">> \o n \o x)
                   /\ WithId(before, x) # {}
                   /\ preview.nodes[last].id = Attr(n \o x)
                   /\ \A j \in WithId(before, x) \ {last} :
                         (\A y \in DOMAIN element_id_map(before) :
                              element_id_map(before)[y] # j)
                         /\ preview.nodes[j].id = Attr(x)
           ELSE Neutralized(preview, i)

C11_LastTargetRenamed ==
    /\ first.ok => LastTargetRenamed(first)
    /\ second.ok => LastTargetRenamed(second)

\* C11 witness: a successful render of a page in which two anchors reference
\* the same id.
C11_Witness ==
    /\ first.ok
    /\ LET before == delete_toc(html)
       IN \E i, k \in Visited(before) :
              /\ i # k
              /\ before[i].href = before[k].href
              /\ before[i].href.val[1] = "#"
              /\ first.nodes[i].href = first.nodes[k].href
              /\ first.nodes[i].href # before[i].href

----------------------------------------------------------------------------
(* Claims about the redirects list of a batch *)

\* C12 as stated: a batch with the envelope and its pages but without a
\* redirects list is read like any other: the call does not fail at it, and
\* when the call returns, the titles that count are in the returned set.
C12_RedirectsOptional ==
    (calls > 0 /\ WellFormedBatch(lastResp) /\ ~lastResp.redirects) =>
        /\ lpc # "error"
        /\ lpc = "done" => (result.returned /\ CountingTitles \subseteq result.list)

\* C12, what holds: such a batch always ends the call in an error, with
\* nothing returned.
C12_MissingRedirectsRaises ==
    (calls > 0 /\ WellFormedBatch(lastResp) /\ ~lastResp.redirects) =>
        (lpc = "error" /\ ~result.returned)

----------------------------------------------------------------------------
(* Claims about the session's cached username *)

\* C13 as stated: whenever the session holds a cached username it holds
\* owner_key too, and the cached name is the name of the account that the
\* session's owner_key and owner_secret authenticate.
C13_CachedUsernameIsOwner ==
    "username" \in DOMAIN session =>
        /\ "owner_key" \in DOMAIN session
        /\ "owner_secret" \in DOMAIN session
        /\ session["owner_key"] = session["owner_secret"]
        /\ session["owner_key"].kind = "access"
        /\ session["owner_key"].acct = session["username"]

\* C13, what holds: a cached username comes with owner_key and owner_secret,
\* and g.user is the cached name or none.
C13_UsernameImpliesOwnerKey ==
    "username" \in DOMAIN session =>
        /\ "owner_key" \in DOMAIN session
        /\ "owner_secret" \in DOMAIN session
        /\ session["username"] \in Accounts

\* C13, the re-login: no session holds the access token of one account and
\* the cached name of the other.
C13_NoStaleNameAfterRelogin ==
    ~ /\ "username" \in DOMAIN session
      /\ session["owner_key"].kind = "access"
      /\ session["owner_key"].acct # session["username"]

====
